---- MODULE Spec2Model ----
(***************************************************************************)
(* A model of pwtrain's init_roundtrip (src/src/main.rs): one PipeWire     *)
(* session that tracks its outstanding core.sync requests in `peddings`    *)
(* and quits the main loop when the last one is answered.                  *)
(*                                                                         *)
(* The session driver's own statements are steps of `pc`.  While the main  *)
(* loop runs, every step is one event the loop dispatches to one of the    *)
(* four registered closures, run to completion: core `done`, registry      *)
(* `global`, node `info`, metadata `property`.  The server is the          *)
(* environment: it may send any event at any time.  MainLoop::quit is      *)
(* taken to stop the dispatch: no closure runs after it.                   *)
(*                                                                         *)
(* Strings that the code only compares are TLA+ strings; strings that the  *)
(* code parses are sequences of one-character strings.  Option<T> is a     *)
(* sequence of length at most one.                                         *)
(***************************************************************************)
EXTENDS Integers, Sequences, FiniteSets, TLC

VARIABLES
    pc,             \* where init_roundtrip is
    peddings,       \* Vec<AsyncSeq>: the sync requests not answered yet
    devices,        \* Vec<Device>
    settings,       \* Settings
    requests,       \* Vec<(Proxy, Request)>: the bound proxies and their listeners
    core_listener,  \* _listener_core is registered
    reg_listener,   \* _listener_reg is registered
    result,         \* what init_roundtrip returned: Option<InitResult>
    next_seq,       \* the connection's sequence number: the next AsyncSeq
    n_globals,      \* objects the registry has announced: the next global id
    infos,          \* history: the info events sent, in order
    n_props,        \* property events sent
    matched,        \* history: the tokens the done closure removed, in order
    event           \* history: the event the loop dispatched last

vars == << pc, peddings, devices, settings, requests, core_listener,
           reg_listener, result, next_seq, n_globals, infos, n_props,
           matched, event >>

-----------------------------------------------------------------------------
(* Bounds of the model *)

MaxGlobals == 2
MaxInfo == 1
MaxProps == 1

-----------------------------------------------------------------------------
(* Option<T> and the property dictionary *)

None == << >>
Some(x) == << x >>
IsSome(o) == Len(o) = 1
Unwrap(o) == o[1]
UnwrapOr(o, d) == IF IsSome(o) THEN o[1] ELSE d

\* props.get(key)
Get(props, key) == IF key \in DOMAIN props THEN Some(props[key]) ELSE None

Range(s) == { s[i] : i \in 1..Len(s) }

\* Vec::remove(index)
Remove(s, index) == [ i \in 1..(Len(s) - 1) |-> IF i < index THEN s[i] ELSE s[i + 1] ]

\* iter().position(|o_seq| *o_seq == seq): the first index holding seq
Position(s, seq) ==
    IF \E i \in 1..Len(s) : s[i] = seq
    THEN Some(CHOOSE i \in 1..Len(s) : s[i] = seq /\ \A j \in 1..(i - 1) : s[j] # seq)
    ELSE None

-----------------------------------------------------------------------------
(* str::parse::<u32>, strip_prefix, strip_suffix, trim, split *)

Digits == << "0", "1", "2", "3", "4", "5", "6", "7", "8", "9" >>
IsDigit(c) == \E d \in 1..10 : Digits[d] = c
DigitValue(c) == (CHOOSE d \in 1..10 : Digits[d] = c) - 1

\* u32::MAX, as its decimal digits (TLC's integers are narrower than u32)
U32MaxDigits == << "4", "2", "9", "4", "9", "6", "7", "2", "9", "5" >>

RECURSIVE StripZeros(_)
StripZeros(s) == IF Len(s) > 1 /\ s[1] = "0" THEN StripZeros(Tail(s)) ELSE s

\* the digit string a is a larger number than the digit string b (no leading zeros)
DigitsGreater(a, b) ==
    \/ Len(a) > Len(b)
    \/ /\ Len(a) = Len(b)
       /\ \E i \in 1..Len(a) :
            /\ DigitValue(a[i]) > DigitValue(b[i])
            /\ \A j \in 1..(i - 1) : a[j] = b[j]

RECURSIVE DecimalValue(_)
DecimalValue(s) ==
    IF Len(s) = 0 THEN 0
    ELSE 10 * DecimalValue(SubSeq(s, 1, Len(s) - 1)) + DigitValue(s[Len(s)])

\* usize::MAX (64 bits), as its decimal digits
UsizeMaxDigits ==
    << "1", "8", "4", "4", "6", "7", "4", "4", "0", "7",
       "3", "7", "0", "9", "5", "5", "1", "6", "1", "5" >>

\* str::parse() to an unsigned integer type: an optional "+", then one or more
\* digits, and no overflow of the type
ParseUnsigned(s, max) ==
    LET digits == IF Len(s) > 0 /\ s[1] = "+" THEN Tail(s) ELSE s
    IN  IF Len(digits) = 0 THEN None
        ELSE IF \E i \in 1..Len(digits) : ~IsDigit(digits[i]) THEN None
        ELSE IF DigitsGreater(StripZeros(digits), max) THEN None
        ELSE Some(DecimalValue(StripZeros(digits)))

ParseU32(s) == ParseUnsigned(s, U32MaxDigits)
ParseUsize(s) == ParseUnsigned(s, UsizeMaxDigits)

StripPrefix(s, c) == IF Len(s) > 0 /\ s[1] = c THEN Some(Tail(s)) ELSE None
StripSuffix(s, c) ==
    IF Len(s) > 0 /\ s[Len(s)] = c THEN Some(SubSeq(s, 1, Len(s) - 1)) ELSE None

IsWhitespace(c) == c \in { " ", "\t", "\n", "\r" }

RECURSIVE TrimStart(_)
TrimStart(s) == IF Len(s) > 0 /\ IsWhitespace(s[1]) THEN TrimStart(Tail(s)) ELSE s
RECURSIVE TrimEnd(_)
TrimEnd(s) ==
    IF Len(s) > 0 /\ IsWhitespace(s[Len(s)]) THEN TrimEnd(SubSeq(s, 1, Len(s) - 1)) ELSE s
Trim(s) == TrimEnd(TrimStart(s))

\* str::split(' '): the pieces between the spaces, empty pieces kept
RECURSIVE Split(_)
Split(s) ==
    IF \E i \in 1..Len(s) : s[i] = " "
    THEN LET i == CHOOSE k \in 1..Len(s) : s[k] = " " /\ \A j \in 1..(k - 1) : s[j] # " "
         IN  << SubSeq(s, 1, i - 1) >> \o Split(SubSeq(s, i + 1, Len(s)))
    ELSE << s >>

-----------------------------------------------------------------------------
(* The session driver, lines 63-81 and 248-252 *)

PW_ID_CORE == 0

\* Settings::default()
DefaultSettings ==
    [ rate |-> 0, allow_rates |-> << >>, quantum |-> 0, min_quantum |-> 0,
      max_quantum |-> 0 ]

NoEvent == [ kind |-> "none" ]

Init ==
    /\ pc = "start"
    /\ peddings = << >>
    /\ devices = << >>
    /\ settings = DefaultSettings
    /\ requests = << >>
    /\ core_listener = FALSE
    /\ reg_listener = FALSE
    /\ result = None
    /\ next_seq = 0
    /\ n_globals = 0
    /\ infos = << >>
    /\ n_props = 0
    /\ matched = << >>
    /\ event = NoEvent

\* MainLoopRc::new, ContextRc::new, connect_rc, get_registry_rc: each `.ok()?`
Connect(ok) ==
    /\ pc = "start"
    /\ pc' = IF ok THEN "sync" ELSE "failed"
    /\ UNCHANGED << peddings, devices, settings, requests, core_listener,
                    reg_listener, result, next_seq, n_globals, infos, n_props,
                    matched, event >>

\* core.sync(0): the request's AsyncSeq is the connection's next sequence number
Sync == next_seq

\* the first request, had its token not been pushed
FirstSyncForgetsToken(ok) ==
    /\ pc = "sync"
    /\ IF ok
       THEN /\ peddings' = peddings
            /\ next_seq' = next_seq + 1
            /\ pc' = "listen_core"
       ELSE /\ pc' = "panicked"
            /\ UNCHANGED << peddings, next_seq >>
    /\ UNCHANGED << devices, settings, requests, core_listener, reg_listener,
                    result, n_globals, infos, n_props, matched, event >>

\* let pending = core.sync(0).expect("sync failed"); peddings.borrow_mut().push(pending)
FirstSync(ok) ==
    /\ pc = "sync"
    /\ IF ok
       THEN /\ peddings' = Append(peddings, Sync)
            /\ next_seq' = next_seq + 1
            /\ pc' = "listen_core"
       ELSE /\ pc' = "panicked"
            /\ UNCHANGED << peddings, next_seq >>
    /\ UNCHANGED << devices, settings, requests, core_listener, reg_listener,
                    result, n_globals, infos, n_props, matched, event >>

\* core.add_listener_local().done(..).register()
RegisterCoreListener ==
    /\ pc = "listen_core"
    /\ core_listener' = TRUE
    /\ pc' = "listen_registry"
    /\ UNCHANGED << peddings, devices, settings, requests, reg_listener, result,
                    next_seq, n_globals, infos, n_props, matched, event >>

\* registry.add_listener_local().global(..).register()
RegisterRegistryListener ==
    /\ pc = "listen_registry"
    /\ reg_listener' = TRUE
    /\ pc' = "run"
    /\ UNCHANGED << peddings, devices, settings, requests, core_listener, result,
                    next_seq, n_globals, infos, n_props, matched, event >>

\* mainloop.run() is entered
Run ==
    /\ pc = "run"
    /\ pc' = "running"
    /\ UNCHANGED << peddings, devices, settings, requests, core_listener,
                    reg_listener, result, next_seq, n_globals, infos, n_props,
                    matched, event >>

\* mainloop.run() has returned: devices.take(), settings.take(), Some(InitResult)
Return ==
    /\ pc = "stopped"
    /\ result' = Some([ devices |-> devices, settings |-> settings ])
    /\ devices' = << >>
    /\ settings' = DefaultSettings
    /\ pc' = "returned"
    /\ UNCHANGED << peddings, requests, core_listener, reg_listener, next_seq,
                    n_globals, infos, n_props, matched, event >>

-----------------------------------------------------------------------------
(* The core done closure, lines 86-99 *)

\* DoneClosure, had it quit after any removal
DoneClosureQuitsOnAnyMatch(list, id, seq) ==
    IF id # PW_ID_CORE THEN [ list |-> list, quit |-> FALSE ]
    ELSE LET index == Position(list, seq)
         IN  IF ~IsSome(index) THEN [ list |-> list, quit |-> FALSE ]
             ELSE [ list |-> Remove(list, Unwrap(index)), quit |-> TRUE ]

\* DoneClosure, had it quit with one token still in the list
DoneClosureOffByOne(list, id, seq) ==
    IF id # PW_ID_CORE THEN [ list |-> list, quit |-> FALSE ]
    ELSE LET index == Position(list, seq)
         IN  IF ~IsSome(index) THEN [ list |-> list, quit |-> FALSE ]
             ELSE LET rest == Remove(list, Unwrap(index))
                  IN  [ list |-> rest, quit |-> (Len(rest) <= 1) ]

\* DoneClosure, had it taken position(..).unwrap_or(0) for the index
DoneClosureDefaultIndex(list, id, seq) ==
    IF id # PW_ID_CORE THEN [ list |-> list, quit |-> FALSE ]
    ELSE LET index == UnwrapOr(Position(list, seq), 1)
             rest == Remove(list, index)
         IN  [ list |-> rest, quit |-> (rest = << >>) ]

\* DoneClosure, had it called remove(0) for the token it found
DoneClosureRemovesFirst(list, id, seq) ==
    IF id # PW_ID_CORE THEN [ list |-> list, quit |-> FALSE ]
    ELSE LET index == Position(list, seq)
         IN  IF ~IsSome(index) THEN [ list |-> list, quit |-> FALSE ]
             ELSE LET rest == Remove(list, 1)
                  IN  [ list |-> rest, quit |-> (rest = << >>) ]

\* DoneClosure, had it compared seq with the oldest token only
DoneClosureFifo(list, id, seq) ==
    IF id # PW_ID_CORE THEN [ list |-> list, quit |-> FALSE ]
    ELSE IF Len(list) = 0 \/ list[1] # seq THEN [ list |-> list, quit |-> FALSE ]
    ELSE LET rest == Remove(list, 1)
         IN  [ list |-> rest, quit |-> (rest = << >>) ]

\* DoneClosure, had it tested is_empty() before remove(index)
DoneClosureChecksBeforeRemove(list, id, seq) ==
    IF id # PW_ID_CORE THEN [ list |-> list, quit |-> FALSE ]
    ELSE LET index == Position(list, seq)
         IN  IF ~IsSome(index) THEN [ list |-> list, quit |-> FALSE ]
             ELSE [ list |-> Remove(list, Unwrap(index)), quit |-> (list = << >>) ]

\* DoneClosure, had it returned on the core's id instead of on the others
DoneClosureFilterInverted(list, id, seq) ==
    IF id = PW_ID_CORE THEN [ list |-> list, quit |-> FALSE ]
    ELSE LET index == Position(list, seq)
         IN  IF ~IsSome(index) THEN [ list |-> list, quit |-> FALSE ]
             ELSE LET rest == Remove(list, Unwrap(index))
                  IN  [ list |-> rest, quit |-> (rest = << >>) ]

\* DoneClosure without the `id != PW_ID_CORE` return
DoneClosureAnyId(list, id, seq) ==
    LET index == Position(list, seq)
    IN  IF ~IsSome(index) THEN [ list |-> list, quit |-> FALSE ]
        ELSE LET rest == Remove(list, Unwrap(index))
             IN  [ list |-> rest, quit |-> (rest = << >>) ]

\* the closure's effect on the list, and whether it called loop_clone.quit()
DoneClosure(list, id, seq) ==
    IF id # PW_ID_CORE THEN [ list |-> list, quit |-> FALSE ]
    ELSE LET index == Position(list, seq)
         IN  IF ~IsSome(index) THEN [ list |-> list, quit |-> FALSE ]
             ELSE LET rest == Remove(list, Unwrap(index))
                  IN  [ list |-> rest, quit |-> (rest = << >>) ]

\* what a step took out of the list: the element at the first place where the
\* list before and the list after differ
Removed(before, after) ==
    IF after = before THEN << >>
    ELSE LET i == CHOOSE k \in 1..Len(before) :
                    /\ k > Len(after) \/ before[k] # after[k]
                    /\ \A j \in 1..(k - 1) : j <= Len(after) /\ before[j] = after[j]
         IN  << before[i] >>

\* the loop dispatches a done(id, seq) event
Done(id, seq) ==
    /\ pc = "running"
    /\ core_listener
    /\ LET r == DoneClosure(peddings, id, seq)
       IN  /\ peddings' = r.list
           /\ pc' = IF r.quit THEN "stopped" ELSE pc
           /\ matched' = matched \o Removed(peddings, r.list)
    /\ event' = [ kind |-> "done", id |-> id, seq |-> seq ]
    /\ UNCHANGED << devices, settings, requests, core_listener, reg_listener,
                    result, next_seq, n_globals, infos, n_props >>

-----------------------------------------------------------------------------
(* The registry global closure, lines 109-244 *)

\* lines 111-115: props.is_some_and(|p| p.get("metadata.name").is_some_and(|n| n == "settings"))
IsSettingsMetadata(props) ==
    /\ IsSome(props)
    /\ LET name == Get(Unwrap(props), "metadata.name")
       IN  IsSome(name) /\ Unwrap(name) = "settings"

\* NodeDirection, had the match ended in `_ => Direction::Input`
NodeDirectionCatchAll(props) ==
    IF ~IsSome(props) THEN None
    ELSE LET media_class == Get(Unwrap(props), "media.class")
         IN  IF ~IsSome(media_class) THEN None
             ELSE IF Unwrap(media_class) = "Audio/Source" THEN Some("Output")
             ELSE Some("Input")

\* lines 178-190 and 197-209: the direction of a node, None where the closure returns
NodeDirection(props) ==
    IF ~IsSome(props) THEN None
    ELSE LET media_class == Get(Unwrap(props), "media.class")
         IN  IF ~IsSome(media_class) THEN None
             ELSE IF Unwrap(media_class) = "Audio/Sink" THEN Some("Input")
             ELSE IF Unwrap(media_class) = "Audio/Source" THEN Some("Output")
             ELSE None

\* which branch of the closure binds the object: "Metadata", "Node" or "none"
GlobalBranch(global) ==
    IF global.type_ = "Metadata"
    THEN IF IsSettingsMetadata(global.props) THEN "Metadata" ELSE "none"
    ELSE IF global.type_ = "Node"
    THEN IF IsSome(NodeDirection(global.props)) THEN "Node" ELSE "none"
    ELSE "none"

\* the global closure, had it made its barrier request without keeping the token
GlobalForgetsToken(global, bind_ok, sync_ok) ==
    /\ pc = "running"
    /\ reg_listener
    /\ global.id = n_globals
    /\ n_globals' = n_globals + 1
    /\ event' = [ kind |-> "global", global |-> global ]
    /\ IF GlobalBranch(global) = "none"
       THEN UNCHANGED << pc, peddings, requests, next_seq >>
       ELSE IF ~bind_ok \/ ~sync_ok
       THEN pc' = "panicked" /\ UNCHANGED << peddings, requests, next_seq >>
       ELSE /\ peddings' = peddings
            /\ next_seq' = next_seq + 1
            /\ requests' = Append(requests, [ id |-> global.id,
                                              kind |-> GlobalBranch(global) ])
            /\ pc' = pc
    /\ UNCHANGED << devices, settings, core_listener, reg_listener, result,
                    infos, n_props, matched >>

\* the global closure, had it kept only the latest proxy and listener
GlobalKeepsLastSubscription(global, bind_ok, sync_ok) ==
    /\ pc = "running"
    /\ reg_listener
    /\ global.id = n_globals
    /\ n_globals' = n_globals + 1
    /\ event' = [ kind |-> "global", global |-> global ]
    /\ IF GlobalBranch(global) = "none"
       THEN UNCHANGED << pc, peddings, requests, next_seq >>
       ELSE IF ~bind_ok \/ ~sync_ok
       THEN pc' = "panicked" /\ UNCHANGED << peddings, requests, next_seq >>
       ELSE /\ peddings' = Append(peddings, Sync)
            /\ next_seq' = next_seq + 1
            /\ requests' = << [ id |-> global.id, kind |-> GlobalBranch(global) ] >>
            /\ pc' = pc
    /\ UNCHANGED << devices, settings, core_listener, reg_listener, result,
                    infos, n_props, matched >>

\* the global closure, had the metadata branch not kept its proxy and listener
GlobalDropsMetadataProxy(global, bind_ok, sync_ok) ==
    /\ pc = "running"
    /\ reg_listener
    /\ global.id = n_globals
    /\ n_globals' = n_globals + 1
    /\ event' = [ kind |-> "global", global |-> global ]
    /\ IF GlobalBranch(global) = "none"
       THEN UNCHANGED << pc, peddings, requests, next_seq >>
       ELSE IF ~bind_ok \/ ~sync_ok
       THEN pc' = "panicked" /\ UNCHANGED << peddings, requests, next_seq >>
       ELSE /\ peddings' = Append(peddings, Sync)
            /\ next_seq' = next_seq + 1
            /\ requests' = IF GlobalBranch(global) = "Metadata" THEN requests
                           ELSE Append(requests, [ id |-> global.id, kind |-> "Node" ])
            /\ pc' = pc
    /\ UNCHANGED << devices, settings, core_listener, reg_listener, result,
                    infos, n_props, matched >>

\* the global closure, had it passed over an object whose bind or sync failed
GlobalSkipsOnFailure(global, bind_ok, sync_ok) ==
    /\ pc = "running"
    /\ reg_listener
    /\ global.id = n_globals
    /\ n_globals' = n_globals + 1
    /\ event' = [ kind |-> "global", global |-> global ]
    /\ IF GlobalBranch(global) = "none" \/ ~bind_ok \/ ~sync_ok
       THEN UNCHANGED << pc, peddings, requests, next_seq >>
       ELSE /\ peddings' = Append(peddings, Sync)
            /\ next_seq' = next_seq + 1
            /\ requests' = Append(requests, [ id |-> global.id,
                                              kind |-> GlobalBranch(global) ])
            /\ pc' = pc
    /\ UNCHANGED << devices, settings, core_listener, reg_listener, result,
                    infos, n_props, matched >>

\* the loop dispatches a global event for a newly announced object; bind_ok and
\* sync_ok are the outcomes of registry.bind and core.sync, should they be called
Global(global, bind_ok, sync_ok) ==
    /\ pc = "running"
    /\ reg_listener
    /\ global.id = n_globals
    /\ n_globals' = n_globals + 1
    /\ event' = [ kind |-> "global", global |-> global ]
    /\ LET branch == GlobalBranch(global)
       IN  IF branch = "none"
           THEN UNCHANGED << pc, peddings, requests, next_seq >>
           ELSE IF ~bind_ok
           THEN \* registry.bind(global).unwrap() / .expect("should ok")
                /\ pc' = "panicked"
                /\ UNCHANGED << peddings, requests, next_seq >>
           ELSE IF ~sync_ok
           THEN \* core.sync(0).expect("sync failed")
                /\ pc' = "panicked"
                /\ UNCHANGED << peddings, requests, next_seq >>
           ELSE /\ peddings' = Append(peddings, Sync)
                /\ next_seq' = next_seq + 1
                /\ requests' = Append(requests, [ id |-> global.id, kind |-> branch ])
                /\ pc' = pc
    /\ UNCHANGED << devices, settings, core_listener, reg_listener, result,
                    infos, n_props, matched >>

-----------------------------------------------------------------------------
(* The node info closure, lines 196-235 *)

\* lines 210-233: the Device of an info event whose direction is known
MakeDevice(id, props, direction) ==
    [ id |-> id,
      node_name |-> UnwrapOr(Get(props, "node.name"), "unknown"),
      nick_name |-> UnwrapOr(Get(props, "node.nick"), "unknown"),
      description |-> UnwrapOr(Get(props, "node.description"), "unknown"),
      direction |-> direction,
      channels |->
          LET c == Get(props, "audio.channels")
          IN  IF IsSome(c) THEN UnwrapOr(ParseUsize(Unwrap(c)), 2) ELSE 2,
      buffer_limit |->
          LET q == Get(props, "clock.quantum-limit")
          IN  IF IsSome(q) THEN UnwrapOr(ParseU32(Unwrap(q)), 0) ELSE 0 ]

\* InfoClosure, had it replaced the device of the same id instead of appending
InfoClosureUpdatesById(list, id, props) ==
    LET direction == NodeDirection(props)
    IN  IF ~IsSome(direction) THEN list
        ELSE LET device == MakeDevice(id, Unwrap(props), Unwrap(direction))
             IN  IF \E i \in 1..Len(list) : list[i].id = id
                 THEN [ i \in 1..Len(list) |-> IF list[i].id = id THEN device ELSE list[i] ]
                 ELSE Append(list, device)

\* InfoClosure, had a missing or unknown media.class fallen back to Direction::Input
InfoClosureDefaultsToInput(list, id, props) ==
    IF ~IsSome(props) THEN list
    ELSE Append(list, MakeDevice(id, Unwrap(props),
                                 UnwrapOr(NodeDirection(props), "Input")))

\* InfoClosure, had the device's id been its position in the list
InfoClosureIdByPosition(list, id, props) ==
    LET direction == NodeDirection(props)
    IN  IF ~IsSome(direction) THEN list
        ELSE Append(list, MakeDevice(Len(list), Unwrap(props), Unwrap(direction)))

\* InfoClosure, had the device been inserted at the front of the list
InfoClosureInsertsFirst(list, id, props) ==
    LET direction == NodeDirection(props)
    IN  IF ~IsSome(direction) THEN list
        ELSE << MakeDevice(id, Unwrap(props), Unwrap(direction)) >> \o list

\* the closure's effect on the device list
InfoClosure(list, id, props) ==
    LET direction == NodeDirection(props)
    IN  IF ~IsSome(direction) THEN list
        ELSE Append(list, MakeDevice(id, Unwrap(props), Unwrap(direction)))

\* a bound proxy of this kind and id is held in `requests`
Subscribed(id, kind) == \E i \in 1..Len(requests) : requests[i] = [ id |-> id, kind |-> kind ]

\* the loop dispatches an info event of a bound node
Info(id, props) ==
    /\ pc = "running"
    /\ Subscribed(id, "Node")
    /\ devices' = InfoClosure(devices, id, props)
    /\ infos' = Append(infos, [ id |-> id, props |-> props ])
    /\ event' = [ kind |-> "info", id |-> id, props |-> props ]
    /\ UNCHANGED << pc, peddings, settings, requests, core_listener, reg_listener,
                    result, next_seq, n_globals, n_props, matched >>

-----------------------------------------------------------------------------
(* The metadata property closure, lines 122-169 *)

\* ParseAll, had the loop skipped the elements that do not parse
RECURSIVE ParseAllSkipsBad(_)
ParseAllSkipsBad(list) ==
    IF Len(list) = 0 THEN Some(<< >>)
    ELSE LET rate == ParseU32(Head(list))
             rest == ParseAllSkipsBad(Tail(list))
         IN  IF IsSome(rate)
             THEN Some(<< Unwrap(rate) >> \o Unwrap(rest))
             ELSE rest

\* lines 131-145: the rates of "[r1 r2 ...]", None where the closure returns early
RECURSIVE ParseAll(_)
ParseAll(list) ==
    IF Len(list) = 0 THEN Some(<< >>)
    ELSE LET rate == ParseU32(Head(list))
             rest == ParseAll(Tail(list))
         IN  IF IsSome(rate) /\ IsSome(rest)
             THEN Some(<< Unwrap(rate) >> \o Unwrap(rest))
             ELSE None

ParseAllowedRates(list) ==
    LET inner == StripPrefix(list, "[")
    IN  IF ~IsSome(inner) THEN None
        ELSE LET body == StripSuffix(Unwrap(inner), "]")
             IN  IF ~IsSome(body) THEN None
                 ELSE ParseAll(Split(Trim(Unwrap(body))))

\* one field set from a parsed value, or nothing where the parse failed
SetField(record, field, parsed) ==
    IF IsSome(parsed) THEN [ record EXCEPT ![field] = Unwrap(parsed) ] ELSE record

\* PropertyClosure, had the clock.min-quantum arm stored into max_quantum
PropertyClosureWrongField(record, key, value) ==
    IF ~IsSome(key) \/ ~IsSome(value) THEN record
    ELSE IF Unwrap(key) = "clock.rate"
    THEN SetField(record, "rate", ParseU32(Unwrap(value)))
    ELSE IF Unwrap(key) = "clock.allowed-rates"
    THEN SetField(record, "allow_rates", ParseAllowedRates(Unwrap(value)))
    ELSE IF Unwrap(key) = "clock.quantum"
    THEN SetField(record, "quantum", ParseU32(Unwrap(value)))
    ELSE IF Unwrap(key) = "clock.min-quantum"
    THEN SetField(record, "max_quantum", ParseU32(Unwrap(value)))
    ELSE IF Unwrap(key) = "clock.max-quantum"
    THEN SetField(record, "max_quantum", ParseU32(Unwrap(value)))
    ELSE record

\* the closure's effect on the Settings record
PropertyClosure(record, key, value) ==
    IF ~IsSome(key) \/ ~IsSome(value) THEN record
    ELSE IF Unwrap(key) = "clock.rate"
    THEN SetField(record, "rate", ParseU32(Unwrap(value)))
    ELSE IF Unwrap(key) = "clock.allowed-rates"
    THEN SetField(record, "allow_rates", ParseAllowedRates(Unwrap(value)))
    ELSE IF Unwrap(key) = "clock.quantum"
    THEN SetField(record, "quantum", ParseU32(Unwrap(value)))
    ELSE IF Unwrap(key) = "clock.min-quantum"
    THEN SetField(record, "min_quantum", ParseU32(Unwrap(value)))
    ELSE IF Unwrap(key) = "clock.max-quantum"
    THEN SetField(record, "max_quantum", ParseU32(Unwrap(value)))
    ELSE record

\* the loop dispatches a property event of the bound settings metadata
Property(id, key, value) ==
    /\ pc = "running"
    /\ Subscribed(id, "Metadata")
    /\ settings' = PropertyClosure(settings, key, value)
    /\ n_props' = n_props + 1
    /\ event' = [ kind |-> "property", id |-> id, key |-> key, value |-> value ]
    /\ UNCHANGED << pc, peddings, devices, requests, core_listener, reg_listener,
                    result, next_seq, n_globals, infos, matched >>

-----------------------------------------------------------------------------
(* The server: the events it may send *)

\* a string the code parses, as its characters
S_48000 == << "4", "8", "0", "0", "0" >>
S_2 == << "2" >>
S_1 == << "1" >>
S_8192 == << "8", "1", "9", "2" >>
S_xyz == << "x", "y", "z" >>
S_overflow == << "4", "2", "9", "4", "9", "6", "7", "2", "9", "6" >>
S_rates == << "[", "4", "4", "1", "0", "0", " ", "4", "8", "0", "0", "0", "]" >>
S_rates_bad_element == << "[", "4", "4", "1", "0", "0", " ", "x", "y", "z", "]" >>
S_rates_no_open == << "4", "4", "1", "0", "0", " ", "4", "8", "0", "0", "0", "]" >>
S_rates_no_close == << "[", "4", "4", "1", "0", "0", " ", "4", "8", "0", "0", "0" >>
S_rates_padded == << "[", " ", "4", "8", "0", "0", "0", " ", "]" >>
S_rates_none == << "[", "]" >>

\* the objects the registry may announce: every type and property shape the
\* global closure tells apart
GlobalShapes ==
    { [ type_ |-> "Node", props |-> Some("media.class" :> "Audio/Sink") ],
      [ type_ |-> "Node", props |-> Some("media.class" :> "Audio/Source") ],
      [ type_ |-> "Node", props |-> Some("media.class" :> "Video/Source") ],
      [ type_ |-> "Node", props |-> Some("node.name" :> "dummy") ],
      [ type_ |-> "Node", props |-> None ],
      [ type_ |-> "Metadata", props |-> Some("metadata.name" :> "settings") ],
      [ type_ |-> "Metadata", props |-> Some("metadata.name" :> "default") ],
      [ type_ |-> "Metadata", props |-> Some("media.class" :> "Audio/Sink") ],
      [ type_ |-> "Metadata", props |-> None ],
      [ type_ |-> "Port",
        props |-> Some(("media.class" :> "Audio/Sink") @@ ("metadata.name" :> "settings")) ] }

\* the next object announced has the next global id
Announce(shape) == [ id |-> n_globals, type_ |-> shape.type_, props |-> shape.props ]

\* the property dictionaries of the info events
InfoProps ==
    { None,
      Some(("media.class" :> "Audio/Sink") @@ ("node.name" :> "alsa_output.foo")
           @@ ("audio.channels" :> S_2)),
      Some(("media.class" :> "Audio/Source") @@ ("node.name" :> "alsa_input.bar")
           @@ ("audio.channels" :> S_1)),
      Some(("media.class" :> "Audio/Sink") @@ ("node.nick" :> "foo")
           @@ ("node.description" :> "Foo") @@ ("audio.channels" :> S_xyz)
           @@ ("clock.quantum-limit" :> S_8192)),
      Some(("media.class" :> "Video/Source") @@ ("node.name" :> "camera")),
      Some("node.name" :> "dummy") }

\* the keys and values of the property events
PropKeys ==
    { None, Some("clock.rate"), Some("clock.allowed-rates"), Some("clock.quantum"),
      Some("clock.min-quantum"), Some("clock.max-quantum"), Some("log.level") }

\* the ids and sequence numbers of the done events: the core's id and another
\* object's; a token that is pending, one that was removed, and one never issued
DoneIds == { PW_ID_CORE, 1 }
DoneSeqs == Range(peddings) \cup Range(matched) \cup { next_seq }

\* the server answers a pending sync request
Answer == \E seq \in Range(peddings) : Done(PW_ID_CORE, seq)

\* the ids of the bound proxies of a kind
BoundIds(kind) == { requests[i].id : i \in { j \in 1..Len(requests) : requests[j].kind = kind } }

\* init_roundtrip up to mainloop.run()
Startup ==
    \/ \E ok \in BOOLEAN : Connect(ok)
    \/ \E ok \in BOOLEAN : FirstSync(ok)
    \/ RegisterCoreListener
    \/ RegisterRegistryListener
    \/ Run

-----------------------------------------------------------------------------
(* Spec: the whole session.  Every object shape is announced; the info and  *)
(* property events carry a few of their values.                             *)

SpecInfoProps ==
    { None,
      Some(("media.class" :> "Audio/Sink") @@ ("node.name" :> "alsa_output.foo")
           @@ ("audio.channels" :> S_2)),
      Some(("media.class" :> "Video/Source") @@ ("node.name" :> "camera")) }

SpecPropKeys == { Some("clock.rate"), Some("clock.allowed-rates") }
SpecPropValues == { Some(S_48000), Some(S_rates_bad_element) }

Next ==
    \/ Startup
    \/ \E id \in DoneIds, seq \in DoneSeqs : Done(id, seq)
    \/ /\ n_globals < MaxGlobals
       /\ \E shape \in GlobalShapes, bind_ok \in BOOLEAN, sync_ok \in BOOLEAN :
            Global(Announce(shape), bind_ok, sync_ok)
    \/ /\ Len(infos) < MaxInfo
       /\ \E id \in BoundIds("Node"), props \in SpecInfoProps : Info(id, props)
    \/ /\ n_props < MaxProps
       /\ \E id \in BoundIds("Metadata"), key \in SpecPropKeys, value \in SpecPropValues :
            Property(id, key, value)
    \/ Return

Spec == Init /\ [][Next]_vars

-----------------------------------------------------------------------------
(* FairSpec: the barrier alone, with the fairness of the session: the       *)
(* driver's own statements run, the main loop dispatches what the server    *)
(* sends, and the server answers every sync request that is pending.        *)

FairGlobalShapes ==
    { [ type_ |-> "Node", props |-> Some("media.class" :> "Audio/Sink") ],
      [ type_ |-> "Node", props |-> Some("media.class" :> "Video/Source") ],
      [ type_ |-> "Metadata", props |-> Some("metadata.name" :> "settings") ] }

FairNext ==
    \/ Startup
    \/ \E id \in DoneIds, seq \in DoneSeqs : Done(id, seq)
    \/ /\ n_globals < MaxGlobals
       /\ \E shape \in FairGlobalShapes, bind_ok \in BOOLEAN, sync_ok \in BOOLEAN :
            Global(Announce(shape), bind_ok, sync_ok)
    \/ Return

FairSpec ==
    /\ Init
    /\ [][FairNext]_vars
    /\ WF_vars(Startup)
    /\ WF_vars(Answer)
    /\ WF_vars(Return)

-----------------------------------------------------------------------------
(* DeviceSpec: the sessions that meet nodes only, with every info event     *)

MaxDeviceGlobals == 2
MaxDeviceInfo == 2

DeviceGlobalShapes ==
    { [ type_ |-> "Node", props |-> Some("media.class" :> "Audio/Sink") ],
      [ type_ |-> "Node", props |-> Some("media.class" :> "Video/Source") ] }

DeviceNext ==
    \/ Startup
    \/ Answer
    \/ /\ n_globals < MaxDeviceGlobals
       /\ \E shape \in DeviceGlobalShapes : Global(Announce(shape), TRUE, TRUE)
    \/ /\ Len(infos) < MaxDeviceInfo
       /\ \E id \in BoundIds("Node"), props \in InfoProps : Info(id, props)
    \/ Return

DeviceSpec == Init /\ [][DeviceNext]_vars

-----------------------------------------------------------------------------
(* SettingsSpec: the sessions that meet metadata only, with every property  *)
(* event                                                                    *)

MaxSettingsGlobals == 1
MaxSettingsProps == 3

SettingsGlobalShapes ==
    { [ type_ |-> "Metadata", props |-> Some("metadata.name" :> "settings") ],
      [ type_ |-> "Metadata", props |-> Some("metadata.name" :> "default") ] }

PropValues ==
    { None, Some(S_48000), Some(S_xyz), Some(S_overflow), Some(S_rates),
      Some(S_rates_bad_element), Some(S_rates_no_open), Some(S_rates_no_close),
      Some(S_rates_padded), Some(S_rates_none) }

SettingsNext ==
    \/ Startup
    \/ Answer
    \/ /\ n_globals < MaxSettingsGlobals
       /\ \E shape \in SettingsGlobalShapes : Global(Announce(shape), TRUE, TRUE)
    \/ /\ n_props < MaxSettingsProps
       /\ \E id \in BoundIds("Metadata"), key \in PropKeys, value \in PropValues :
            Property(id, key, value)
    \/ Return

SettingsSpec == Init /\ [][SettingsNext]_vars

-----------------------------------------------------------------------------
(* The claims *)

\* mainloop.run() has been told to return
LoopTerminated == pc \in { "stopped", "returned" }

\* the tokens core.sync has returned so far
Issued == 0..(next_seq - 1)

\* the devices of the Object Store: the shared list, or what the caller got
StoreDevices == IF pc = "returned" THEN Unwrap(result).devices ELSE devices

NoDuplicates(s) == \A i \in 1..Len(s), j \in 1..Len(s) : s[i] = s[j] => i = j

\* C1: with N relevant objects bound (each with its sync request issued), the
\* loop has terminated if and only if exactly N+1 completions were matched.
C1_TerminatesIffAllMatched ==
    LoopTerminated <=> (Len(matched) = Len(requests) + 1)

C1_Witness == pc = "stopped" /\ Len(requests) = 2 /\ Len(matched) = 3

\* C2: the loop is stopped only by a done event of the core that removes the
\* last token of the list, and every step that empties the list stops the loop.
C2_StoppedOnlyByLastRemoval ==
    [][ /\ (pc # "stopped" /\ pc' = "stopped") =>
             /\ pc = "running"
             /\ event'.kind = "done"
             /\ event'.id = PW_ID_CORE
             /\ peddings = << event'.seq >>
             /\ peddings' = << >>
        /\ (peddings # << >> /\ peddings' = << >>) => pc' = "stopped" ]_vars

C2_Witness ==
    pc = "stopped" /\ event.kind = "done" /\ peddings = << >> /\ Len(matched) >= 2

\* C3: a done event whose seq is not in the list (never tracked, or removed
\* before) leaves the list as it is, stops nothing and fails nothing.
C3_UnmatchedCompletionIgnored ==
    [][ (pc = "running" /\ event'.kind = "done" /\ event'.seq \notin Range(peddings)) =>
            (peddings' = peddings /\ matched' = matched /\ pc' = "running") ]_vars

\* the last event is a second done for the token that was removed first
C3_Witness ==
    /\ pc = "running"
    /\ event.kind = "done"
    /\ event.id = PW_ID_CORE
    /\ Len(matched) >= 2
    /\ event.seq = matched[1]

\* C4: the list never holds a token twice; a token leaves the list only by the
\* core's done event that carries it, and a removed token is never in the list
\* or removed again.
C4_TokenOnceRemovedByItsCompletion ==
    /\ [](/\ NoDuplicates(peddings)
          /\ NoDuplicates(matched)
          /\ Range(peddings) \cap Range(matched) = {})
    /\ [][ \A t \in Range(peddings) \ Range(peddings') :
             /\ event'.kind = "done"
             /\ event'.id = PW_ID_CORE
             /\ event'.seq = t
             /\ matched' = Append(matched, t) ]_vars

C4_Witness == Len(matched) = 2 /\ Len(peddings) = 1 /\ pc = "running"

\* C5: a done event of the core for a token anywhere in the list removes that
\* token, whatever was issued before or after it, and the loop stops at that
\* event exactly when every issued token has then been removed; while a token
\* is still uncompleted the loop has not terminated.
C5_CompletionOrderFree ==
    /\ [](LoopTerminated => \A t \in Issued : t \in Range(matched))
    /\ [][ ( /\ pc = "running"
             /\ event'.kind = "done"
             /\ event'.id = PW_ID_CORE
             /\ event'.seq \in Range(peddings) ) =>
           ( /\ matched' = Append(matched, event'.seq)
             /\ (pc' = "stopped") <=> (\A t \in Issued : t \in Range(matched')) ) ]_vars

\* the order [D2, initial, D1]
C5_Witness == pc = "stopped" /\ matched = << 2, 0, 1 >>

\* C6: with no relevant object bound, the first matched completion stops the
\* loop; it is the initial token's, the only one, and the store has no device.
C6_NoObjectsOneCompletion ==
    /\ []((LoopTerminated /\ requests = << >>) =>
             (matched = << 0 >> /\ StoreDevices = << >>))
    /\ [][ (pc = "running" /\ requests = << >> /\ matched' # matched) =>
             pc' = "stopped" ]_vars

C6_Witness ==
    /\ pc = "returned"
    /\ requests = << >>
    /\ n_globals >= 1
    /\ Unwrap(result).devices = << >>

\* C7: under the fairness of FairSpec (every pending sync request is answered,
\* and only finitely many objects are announced) a running loop is eventually
\* stopped, unless a bind or sync failure aborts the process first; and the
\* loop never terminates while an issued token has not been matched, so a
\* request that is never answered keeps it running for ever.
C7_StopsIffEveryRequestAnswered ==
    /\ (pc = "running") ~> (pc = "stopped" \/ pc = "panicked")
    /\ [](LoopTerminated => peddings = << >> /\ Range(matched) = Issued)

C7_Witness == pc = "returned" /\ Len(requests) = 2 /\ Len(matched) = 3

\* an info event that carries an audio sink or source class
IsAudioInfo(props) ==
    /\ IsSome(props)
    /\ "media.class" \in DOMAIN Unwrap(props)
    /\ Unwrap(props)["media.class"] \in { "Audio/Sink", "Audio/Source" }

\* the info events fired for an object, and those of them that carry an audio class
Fired(id) == { i \in 1..Len(infos) : infos[i].id = id }
FiredAudio(id) == { i \in Fired(id) : IsAudioInfo(infos[i].props) }

\* the entities the store holds for an object
Entities(id) == { i \in 1..Len(StoreDevices) : StoreDevices[i].id = id }

\* C8, as claimed: after termination the store holds exactly one entity for
\* each object whose info event fired, and none for the others.
C8_OneEntityPerFiredObject ==
    LoopTerminated =>
        \A id \in 0..(n_globals - 1) :
            Cardinality(Entities(id)) = IF Fired(id) # {} THEN 1 ELSE 0

\* C8, amended: after termination the store holds, for each object, exactly
\* one entity per info event of that object that carried an audio sink or
\* source class, the entities in the order of those events; none for an
\* object whose listener never fired.
C8_OneEntityPerAudioInfoEvent ==
    LoopTerminated =>
        /\ \A id \in 0..(n_globals - 1) :
             Cardinality(Entities(id)) = Cardinality(FiredAudio(id))
        /\ LET audio == SelectSeq(infos, LAMBDA e : IsAudioInfo(e.props))
           IN  [ i \in 1..Len(StoreDevices) |-> StoreDevices[i].id ]
                   = [ i \in 1..Len(audio) |-> audio[i].id ]

\* one object fired twice with an audio class, another was bound and never fired
C8_Witness ==
    /\ pc = "stopped"
    /\ \E id \in BoundIds("Node") : Cardinality(FiredAudio(id)) = 2
    /\ \E id \in BoundIds("Node") : Fired(id) = {}

\* an object the claim calls relevant: an audio sink or source node, or the
\* metadata object named "settings"
IsRelevant(global) ==
    \/ /\ global.type_ = "Node"
       /\ IsSome(global.props)
       /\ "media.class" \in DOMAIN Unwrap(global.props)
       /\ Unwrap(global.props)["media.class"] \in { "Audio/Sink", "Audio/Source" }
    \/ /\ global.type_ = "Metadata"
       /\ IsSome(global.props)
       /\ "metadata.name" \in DOMAIN Unwrap(global.props)
       /\ Unwrap(global.props)["metadata.name"] = "settings"

\* C9: the announcement of an irrelevant object binds nothing, issues no sync
\* request, and leaves the list of tokens, the store and the settings alone.
C9_IrrelevantObjectIgnored ==
    [][ ( /\ pc = "running"
          /\ n_globals' = n_globals + 1
          /\ event'.kind = "global"
          /\ ~IsRelevant(event'.global) ) =>
        UNCHANGED << pc, peddings, requests, next_seq, devices, settings, matched >> ]_vars

\* a node without media.class (scenario D) was announced and ignored
C9_Witness ==
    /\ event.kind = "global"
    /\ event.global.type_ = "Node"
    /\ IsSome(event.global.props)
    /\ "media.class" \notin DOMAIN Unwrap(event.global.props)
    /\ n_globals = 2
    /\ Len(requests) = 1
    /\ pc = "running"

\* the text of an integer: an optional sign, then digits
IsIntegerText(s) ==
    /\ Len(s) > 0
    /\ LET digits == IF s[1] \in { "+", "-" } THEN Tail(s) ELSE s
       IN  Len(digits) > 0 /\ \A i \in 1..Len(digits) : IsDigit(digits[i])

\* an allowed-rates value without its "[" or its "]", or with an element (a
\* longest run without a space between them) that is not an integer
IsMalformedRates(s) ==
    \/ Len(s) < 2
    \/ s[1] # "["
    \/ s[Len(s)] # "]"
    \/ LET inner == SubSeq(s, 2, Len(s) - 1)
       IN  \E i \in 1..Len(inner), j \in 1..Len(inner) :
             /\ i <= j
             /\ \A k \in i..j : inner[k] # " "
             /\ i = 1 \/ inner[i - 1] = " "
             /\ j = Len(inner) \/ inner[j + 1] = " "
             /\ ~IsIntegerText(SubSeq(inner, i, j))

NumericKeys == { "clock.rate", "clock.quantum", "clock.min-quantum", "clock.max-quantum" }

\* a property event the claim calls malformed
IsMalformedUpdate(key, value) ==
    /\ IsSome(key)
    /\ IsSome(value)
    /\ \/ Unwrap(key) = "clock.allowed-rates" /\ IsMalformedRates(Unwrap(value))
       \/ Unwrap(key) \in NumericKeys /\ ~IsIntegerText(Unwrap(value))

\* C10: a malformed property event changes no field of the settings.
C10_MalformedUpdateDiscarded ==
    [][ ( /\ pc = "running"
          /\ n_props' = n_props + 1
          /\ event'.kind = "property"
          /\ IsMalformedUpdate(event'.key, event'.value) ) =>
        settings' = settings ]_vars

\* scenario C: clock.rate=48000, clock.allowed-rates=[44100 48000], then
\* clock.allowed-rates=[44100 xyz]
C10_Witness ==
    /\ n_props = 3
    /\ event.kind = "property"
    /\ event.key = Some("clock.allowed-rates")
    /\ event.value = Some(S_rates_bad_element)
    /\ settings.rate = 48000
    /\ settings.allow_rates = << 44100, 48000 >>

SettingsFields == { "rate", "allow_rates", "quantum", "min_quantum", "max_quantum" }

\* the field each recognized key names
FieldOfKey ==
    ("clock.rate" :> "rate") @@ ("clock.allowed-rates" :> "allow_rates")
    @@ ("clock.quantum" :> "quantum") @@ ("clock.min-quantum" :> "min_quantum")
    @@ ("clock.max-quantum" :> "max_quantum")

\* the well-formed values among those sent, with what each one denotes
NumberTexts == { << S_48000, 48000 >> }
RatesTexts == { << S_rates, << 44100, 48000 >> >>, << S_rates_padded, << 48000 >> >> }
TextsOfKey(k) == IF k = "clock.allowed-rates" THEN RatesTexts ELSE NumberTexts

\* C11: a property event changes at most one field of the settings; with a
\* recognized key and a well-formed value it sets the field of that key to the
\* value and leaves the other four alone; with an unrecognized key, or without
\* a key or a value, it leaves the whole record alone.
C11_OneFieldPerPropertyEvent ==
    [][ ( /\ pc = "running"
          /\ n_props' = n_props + 1
          /\ event'.kind = "property" ) =>
        LET key == event'.key
            value == event'.value
            changed == { f \in SettingsFields : settings'[f] # settings[f] }
        IN  /\ Cardinality(changed) <= 1
            /\ DOMAIN settings' = SettingsFields
            /\ IF IsSome(key) /\ IsSome(value) /\ Unwrap(key) \in DOMAIN FieldOfKey
               THEN /\ changed \subseteq { FieldOfKey[Unwrap(key)] }
                    /\ \A t \in TextsOfKey(Unwrap(key)) :
                         t[1] = Unwrap(value) => settings'[FieldOfKey[Unwrap(key)]] = t[2]
               ELSE changed = {} ]_vars

\* clock.rate, then clock.min-quantum, were set; the others are as they were
C11_Witness ==
    /\ event.kind = "property"
    /\ event.key = Some("clock.min-quantum")
    /\ event.value = Some(S_48000)
    /\ settings = [ DefaultSettings EXCEPT !.rate = 48000, !.min_quantum = 48000 ]

Aborted == pc \in { "failed", "panicked" }

\* C12: a failure to connect or to get the registry, a failed bind of a
\* discovered object, and a failed barrier request (the first one or one made
\* in the global callback) each end the session in a failure outcome; a failed
\* session never takes another step, so it returns no result, retries nothing
\* and passes over no object.
C12_FailureAbortsSession ==
    [][ /\ ~Aborted
        /\ Connect(FALSE) => pc' = "failed"
        /\ FirstSync(FALSE) => pc' = "panicked"
        /\ ( /\ event'.kind = "global"
             /\ n_globals' = n_globals + 1
             /\ IsRelevant(event'.global) ) =>
               /\ \A bind_ok, sync_ok \in BOOLEAN :
                    ( ~(bind_ok /\ sync_ok)
                      /\ Global(event'.global, bind_ok, sync_ok) ) => pc' = "panicked"
               /\ \/ pc' = "panicked" /\ requests' = requests /\ peddings' = peddings
                  \/ pc' = "running" /\ Len(requests') = Len(requests) + 1
        /\ Aborted' => result' = None
        /\ result' # None => pc = "stopped" /\ pc' = "returned" ]_vars

\* a bind or sync failed after one object was subscribed and its entity stored
C12_Witness ==
    /\ pc = "panicked"
    /\ event.kind = "global"
    /\ IsRelevant(event.global)
    /\ requests # << >>
    /\ devices # << >>
    /\ result = None

\* C13: a barrier request made in a callback has its token in the pending list
\* when that callback ends, so every token requested is pending or already
\* matched whenever an event is dispatched, and a completion event for a
\* requested token never finds it untracked.
C13_TokenTrackedInItsCallback ==
    /\ [](Issued = Range(peddings) \cup Range(matched))
    /\ [][ /\ next_seq' # next_seq =>
                /\ next_seq' = next_seq + 1
                /\ peddings' = Append(peddings, next_seq)
           /\ ( /\ event'.kind = "done"
                /\ event' # event
                /\ event'.id = PW_ID_CORE
                /\ event'.seq \in Issued ) =>
                  \/ event'.seq \in Range(peddings) /\ event'.seq \notin Range(peddings')
                  \/ event'.seq \in Range(matched) ]_vars

\* the token requested in a global callback was pending when its completion
\* came, and the completion removed it
C13_Witness ==
    /\ event.kind = "done"
    /\ event.id = PW_ID_CORE
    /\ event.seq >= 1
    /\ requests # << >>
    /\ event.seq \in Range(matched)
    /\ event.seq \notin Range(peddings)

\* C14: exactly one barrier request is made, and its token pushed, before the
\* done listener and the global listener are registered and before the loop
\* runs; when the loop starts to dispatch, the pending list is that one token.
C14_OneRequestBeforeListeners ==
    /\ [](pc \in { "start", "sync" } =>
            /\ ~core_listener /\ ~reg_listener
            /\ peddings = << >> /\ Issued = {})
    /\ [](pc \in { "listen_core", "listen_registry", "run" } =>
            peddings = << 0 >> /\ Issued = { 0 } /\ event = NoEvent)
    /\ [][ /\ (core_listener' # core_listener \/ reg_listener' # reg_listener) =>
                peddings = << 0 >> /\ Issued = { 0 } /\ pc # "running"
           /\ (pc # "running" /\ pc' = "running") =>
                /\ core_listener' /\ reg_listener'
                /\ peddings' = << 0 >> /\ Issued' = { 0 }
                /\ event' = NoEvent ]_vars

\* the loop is about to dispatch its first event
C14_Witness ==
    /\ pc = "running"
    /\ event = NoEvent
    /\ core_listener /\ reg_listener
    /\ peddings = << 0 >>
    /\ next_seq = 1

\* C15: the global callback of a relevant object, when it returns, has bound
\* the object and registered its listener, made exactly one new barrier
\* request, pushed that token, and pushed exactly one (proxy, listener) pair
\* for the object; the pairs held are never removed while the loop runs.
C15_RelevantObjectSubscribedOnce ==
    [][ /\ ( /\ pc = "running"
             /\ n_globals' = n_globals + 1
             /\ event'.kind = "global"
             /\ IsRelevant(event'.global)
             /\ pc' = "running" ) =>
               /\ next_seq' = next_seq + 1
               /\ peddings' = Append(peddings, next_seq)
               /\ requests' = Append(requests, [ id |-> event'.global.id,
                                                 kind |-> event'.global.type_ ])
               /\ ~Subscribed(event'.global.id, event'.global.type_)
        /\ pc = "running" =>
               /\ Len(requests') >= Len(requests)
               /\ SubSeq(requests', 1, Len(requests)) = requests
        /\ Len(requests') > Len(requests) =>
               event'.kind = "global" /\ n_globals' = n_globals + 1 ]_vars

\* the second relevant object was announced: two pairs held, three tokens issued
C15_Witness ==
    /\ pc = "running"
    /\ event.kind = "global"
    /\ IsRelevant(event.global)
    /\ Len(requests) = 2
    /\ requests[2] = [ id |-> event.global.id, kind |-> event.global.type_ ]
    /\ requests[1].id # requests[2].id
    /\ next_seq = 3
    /\ peddings[Len(peddings)] = 2

\* C16: the device list only grows at its end: an info event that yields an
\* entity appends exactly one, for its own object, and no step changes or
\* removes an entity already stored; so an object holds one entity per such
\* event of its own, however many there were (nothing is merged by object id).
C16_DevicesAppendOnly ==
    /\ [](\A id \in 0..(n_globals - 1) :
             Cardinality(Entities(id)) = Cardinality(FiredAudio(id)))
    /\ [][ /\ Len(StoreDevices') >= Len(StoreDevices)
           /\ SubSeq(StoreDevices', 1, Len(StoreDevices)) = StoreDevices
           /\ IF pc = "running" /\ Len(infos') = Len(infos) + 1
                 /\ IsAudioInfo(event'.props)
              THEN /\ Len(StoreDevices') = Len(StoreDevices) + 1
                   /\ StoreDevices'[Len(StoreDevices')].id = event'.id
              ELSE StoreDevices' = StoreDevices ]_vars

\* one object fired twice with different properties: both entities are stored,
\* the first as it was
C16_Witness ==
    /\ Len(StoreDevices) = 2
    /\ StoreDevices[1].id = StoreDevices[2].id
    /\ StoreDevices[1] # StoreDevices[2]
    /\ Len(infos) = 2
    /\ StoreDevices[1].node_name = "alsa_output.foo"

\* C17: a done event whose id is not the core's id is ignored even when its seq
\* is a token of the list: the list stays as it is and the loop is not stopped.
C17_ForeignIdIgnored ==
    [][ ( /\ pc = "running"
          /\ event'.kind = "done"
          /\ event'.id # PW_ID_CORE
          /\ event'.seq \in Range(peddings) ) =>
            /\ peddings' = peddings
            /\ matched' = matched
            /\ pc' = "running" ]_vars

\* a done event of another id carried the only token left, and the loop runs on
C17_Witness ==
    /\ pc = "running"
    /\ event.kind = "done"
    /\ event.id # PW_ID_CORE
    /\ peddings = << event.seq >>
    /\ matched # << >>

\* the numbers among the texts the info events carry, with what each denotes
DeviceNumberTexts == { << S_2, 2 >>, << S_1, 1 >>, << S_8192, 8192 >> }

\* the number a property denotes, or the default where it is absent or no number
NumberOr(p, k, default) ==
    IF k \in DOMAIN p /\ \E t \in DeviceNumberTexts : t[1] = p[k]
    THEN (CHOOSE t \in DeviceNumberTexts : t[1] = p[k])[2]
    ELSE default

TextOr(p, k, default) == IF k \in DOMAIN p THEN p[k] ELSE default

\* the entity an info event of an audio sink or source describes
EntityOf(e) ==
    LET p == Unwrap(e.props)
    IN  [ id |-> e.id,
          node_name |-> TextOr(p, "node.name", "unknown"),
          nick_name |-> TextOr(p, "node.nick", "unknown"),
          description |-> TextOr(p, "node.description", "unknown"),
          direction |-> IF p["media.class"] = "Audio/Sink" THEN "Input" ELSE "Output",
          channels |-> NumberOr(p, "audio.channels", 2),
          buffer_limit |-> NumberOr(p, "clock.quantum-limit", 0) ]

\* C18: the entity stored for an object is determined by that object's own
\* info event alone: whatever other objects were announced, fired or answered,
\* and in whatever order, the entities in the store are, one for one, the
\* entities the info events describe, so two runs with the same info event for
\* an object store the same entity for it.
C18_EntityFromOwnEventOnly ==
    LET audio == SelectSeq(infos, LAMBDA e : IsAudioInfo(e.props))
    IN  /\ Len(StoreDevices) = Len(audio)
        /\ \A i \in 1..Len(audio) : StoreDevices[i] = EntityOf(audio[i])

\* the object announced second fired first, then the other one: each entity is
\* its own event's, the positions follow the arrival
C18_Witness ==
    /\ Len(StoreDevices) = 2
    /\ StoreDevices[1].id = 1
    /\ StoreDevices[2].id = 0
    /\ StoreDevices[1].direction = "Output"
    /\ StoreDevices[2].nick_name = "foo"
    /\ Len(peddings) < next_seq

\* the first token has been pushed (line 80): the session is past its first
\* request and did not fail in making it
FirstTokenPushed ==
    /\ pc \notin { "start", "sync", "failed" }
    /\ pc = "panicked" => event # NoEvent

\* C19: in every state from the push of the first token on, the tokens pushed
\* so far are one more than the pairs held in `requests`, and the tokens still
\* pending are the tokens pushed less the completions matched; so when the loop
\* has stopped, the request of every object held has been answered.
C19_TokensCountSubscriptions ==
    FirstTokenPushed =>
        /\ next_seq = 1 + Len(requests)
        /\ Len(peddings) = next_seq - Len(matched)
        /\ LoopTerminated => \A i \in 1..Len(requests) : i \in Range(matched)

\* two objects are held, three tokens were pushed, all three were matched
C19_Witness ==
    /\ LoopTerminated
    /\ Len(requests) = 2
    /\ next_seq = 3
    /\ Range(matched) = { 0, 1, 2 }
    /\ peddings = << >>
    /\ matched # << 0, 1, 2 >>

\* C20: an info event of a held node that carries no properties, or no
\* media.class, or a media.class other than "Audio/Sink" and "Audio/Source",
\* appends no entity: the device list and the settings stay as they are.
C20_NonAudioInfoStoresNothing ==
    [][ ( /\ pc = "running"
          /\ Len(infos') = Len(infos) + 1
          /\ event'.kind = "info"
          /\ \/ ~IsSome(event'.props)
             \/ "media.class" \notin DOMAIN Unwrap(event'.props)
             \/ Unwrap(event'.props)["media.class"] \notin { "Audio/Sink", "Audio/Source" } ) =>
            /\ Subscribed(event'.id, "Node")
            /\ devices' = devices
            /\ settings' = settings
            /\ peddings' = peddings /\ pc' = pc ]_vars

\* a held node fired with a video class after its entity was stored: the store
\* holds that one entity still
C20_Witness ==
    /\ Len(infos) = 2
    /\ IsAudioInfo(infos[1].props)
    /\ infos[2].id = infos[1].id
    /\ IsSome(infos[2].props)
    /\ ~IsAudioInfo(infos[2].props)
    /\ event = [ kind |-> "info", id |-> infos[2].id, props |-> infos[2].props ]
    /\ Len(devices) = 1

====
